---- MODULE Spec2Model ----
(***************************************************************************)
(* A model of src/src/notion_mcp/server.py: the tool dispatcher call_tool, *)
(* its five handlers with their external requests and transport sessions,  *)
(* and the property and block codecs.                                      *)
(*                                                                         *)
(* Representation of Python values:                                        *)
(*   - a dict is a function whose domain is its set of (string) keys;      *)
(*   - a list is a sequence;                                               *)
(*   - a str on which the code computes (join, replace) is a sequence of   *)
(*     one-character strings; a str the code only passes on or compares    *)
(*     (tool names, type tags, argument values) is a TLA+ string;          *)
(*   - None is the value None below.                                       *)
(***************************************************************************)
EXTENDS Integers, Sequences, FiniteSets, TLC

VARIABLES
    headers,      \* the module-level dict `headers`
    pc,           \* per invocation: "idle", "await", "returned", "raised"
    name,         \* per invocation: the `name` argument of call_tool
    arguments,    \* per invocation: the `arguments` argument of call_tool
    blocks,       \* per invocation: the local `blocks` of the content-update handler
    page_data,    \* per invocation: the local `page_data` of get_page_content
    requests,     \* per invocation: the external requests issued so far
    responses,    \* per invocation: the outcomes received so far
    sessions,     \* per invocation: httpx.AsyncClient contexts currently open
    opened,       \* per invocation: httpx.AsyncClient contexts entered so far
    result,       \* per invocation: what call_tool returned or raised
    appends,      \* the external side: PATCHes of blocks/{id}/children sent by the
                  \* content-update handler since startup
    confirmed,    \* content-update invocations that ended with the confirmation
    cin,          \* codec runs: the input drawn
    cout,         \* codec runs: the last value computed
    cpc           \* codec runs: which codec function produced cout

vars == <<headers, pc, name, arguments, blocks, page_data, requests, responses,
          sessions, opened, result, appends, confirmed, cin, cout, cpc>>

serverVars == <<headers, pc, name, arguments, blocks, page_data, requests,
                responses, sessions, opened, result, appends, confirmed>>

wireVars == <<appends, confirmed>>

codecVars == <<cin, cout, cpc>>

-----------------------------------------------------------------------------
(* Bounds of the model *)

NumInv == 2          \* invocations in flight at once in SpecConc
MaxContent == 2      \* longest `content` argument
MaxPages == 2        \* most pages in a query response
MaxRuns == 3         \* most rich-text runs in a block read by format_block
MaxRepeat == 2       \* most content-update PATCHes followed since startup

-----------------------------------------------------------------------------
(* Python values *)

EmptyDict == [k \in {} |-> k]

None == [py |-> "None"]

\* d.get(k, default)
Get(d, k, default) == IF k \in DOMAIN d THEN d[k] ELSE default

\* `not d` for a value that is a dict or None
FalsyDict(d) == d = None \/ DOMAIN d = {}

\* d.get("type") == t
HasType(d, t) == "type" \in DOMAIN d /\ d["type"] = t

\* sep.join(parts)
RECURSIVE Join(_, _)
Join(sep, parts) ==
    IF parts = <<>> THEN <<>>
    ELSE IF Len(parts) = 1 THEN parts[1]
    ELSE parts[1] \o sep \o Join(sep, Tail(parts))

\* s.replace(old, new) for a one-character old
RECURSIVE Replace(_, _, _)
Replace(s, old, new) ==
    IF s = <<>> THEN <<>>
    ELSE (IF Head(s) = old THEN new ELSE <<Head(s)>>) \o Replace(Tail(s), old, new)

\* [part.get("plain_text", "") for part in runs]
PlainTexts(runs) == [k \in 1..Len(runs) |-> Get(runs[k], "plain_text", <<>>)]

-----------------------------------------------------------------------------
(* PropertyCodec *)

extract_multi_select(property_data) ==
    IF FalsyDict(property_data) \/ ~HasType(property_data, "multi_select")
    THEN <<>>
    ELSE LET items == Get(property_data, "multi_select", <<>>)
         IN  [k \in 1..Len(items) |-> Get(items[k], "name", <<>>)]

\* extract_select as it would be if it answered None, as format_property_value
\* does, when nothing is selected
extract_select_null(property_data) ==
    IF FalsyDict(property_data) \/ ~HasType(property_data, "select")
    THEN <<>>
    ELSE LET select_data == Get(property_data, "select", None)
         IN  IF FalsyDict(select_data) THEN None ELSE Get(select_data, "name", None)

extract_select(property_data) ==
    IF FalsyDict(property_data) \/ ~HasType(property_data, "select")
    THEN <<>>
    ELSE LET select_data == Get(property_data, "select", EmptyDict)
         IN  IF FalsyDict(select_data) THEN <<>> ELSE Get(select_data, "name", <<>>)

extract_text_from_title(title_property) ==
    IF FalsyDict(title_property)
    THEN <<>>
    ELSE LET title_parts == Get(title_property, "title", <<>>)
         IN  IF title_parts # <<>> THEN Join(<<" ">>, PlainTexts(title_parts)) ELSE <<>>

format_property_value(property_data) ==
    IF FalsyDict(property_data) THEN None
    ELSE IF HasType(property_data, "title") THEN extract_text_from_title(property_data)
    ELSE IF HasType(property_data, "rich_text")
         THEN Join(<<" ">>, PlainTexts(Get(property_data, "rich_text", <<>>)))
    ELSE IF HasType(property_data, "select")
         THEN LET select_data == Get(property_data, "select", None)
              IN  IF FalsyDict(select_data) THEN None ELSE Get(select_data, "name", None)
    ELSE IF HasType(property_data, "multi_select")
         THEN LET items == Get(property_data, "multi_select", <<>>)
              IN  [k \in 1..Len(items) |-> Get(items[k], "name", None)]
    ELSE IF HasType(property_data, "date")
         THEN LET date_data == Get(property_data, "date", EmptyDict)
              IN  IF FalsyDict(date_data) THEN None
                  ELSE [start |-> Get(date_data, "start", None),
                        end |-> Get(date_data, "end", None)]
    ELSE IF "type" \in DOMAIN property_data
         THEN Get(property_data, property_data["type"], None)
         ELSE None

-----------------------------------------------------------------------------
(* BlockCodec *)

TextLike == {"paragraph", "heading_1", "heading_2", "heading_3",
             "bulleted_list_item", "numbered_list_item"}

\* format_block as it would be if it concatenated the fragments ("".join)
format_block_concat(block) ==
    LET block_type == Get(block, "type", "")
    IN  IF block_type = "" THEN None
        ELSE LET content == Get(block, block_type, EmptyDict)
             IN  IF block_type \in TextLike
                 THEN [type |-> block_type,
                       text |-> Join(<<>>, PlainTexts(Get(content, "rich_text", <<>>)))]
                 ELSE [type |-> block_type, content |-> content]

format_block(block) ==
    LET block_type == Get(block, "type", "")
    IN  IF block_type = "" THEN None
        ELSE LET content == Get(block, block_type, EmptyDict)
             IN  IF block_type \in {"paragraph", "heading_1", "heading_2", "heading_3"}
                 THEN [type |-> block_type,
                       text |-> Join(<<" ">>, PlainTexts(Get(content, "rich_text", <<>>)))]
                 ELSE IF block_type = "bulleted_list_item" \/ block_type = "numbered_list_item"
                 THEN [type |-> block_type,
                       text |-> Join(<<" ">>, PlainTexts(Get(content, "rich_text", <<>>)))]
                 ELSE [type |-> block_type, content |-> content]

\* create_block_content as it would be if the run also carried plain_text
create_block_content_plain(block_type, text) ==
    [k \in {"type", "object", block_type} |->
        IF k = block_type
        THEN [rich_text |-> <<[type |-> "text", text |-> [content |-> text],
                               plain_text |-> text]>>]
        ELSE IF k = "type" THEN block_type ELSE "block"]

\* A dict literal keeps the last value given for a key: the block_type key is
\* written after "type" and "object".
create_block_content(block_type, text) ==
    [k \in {"type", "object", block_type} |->
        IF k = block_type
        THEN [rich_text |-> <<[type |-> "text", text |-> [content |-> text]]>>]
        ELSE IF k = "type" THEN block_type ELSE "block"]

-----------------------------------------------------------------------------
(* Startup configuration and ExternalClient *)

NOTION_API_KEY == "secret-key"

DATABASE_ID == "db-1"

NOTION_VERSION == "2022-06-28"

NOTION_BASE_URL == "https://api.notion.com/v1"

\* the value of the module-level dict `headers` after import
Headers0 ==
    ("Authorization" :> <<"Bearer ", NOTION_API_KEY>>)
      @@ ("Content-Type" :> <<"application/json">>)
      @@ ("Notion-Version" :> <<NOTION_VERSION>>)

\* client.<method>(f"{NOTION_BASE_URL}/...", headers=headers, json=body)
Request(method, path, hdrs, body) ==
    [method |-> method, url |-> <<NOTION_BASE_URL>> \o path, headers |-> hdrs, json |-> body]

\* What an awaited request can come back with: a 2xx response whose body is
\* JSON ("ok"), a 2xx response whose body is not JSON ("bad_json"), a non-2xx
\* response ("status_error": raise_for_status raises httpx.HTTPStatusError),
\* or no response at all ("transport_error": the call raises
\* httpx.TransportError).
Ok(body) == [kind |-> "ok", body |-> body]

BadJson == [kind |-> "bad_json"]

StatusError == [kind |-> "status_error", msg |-> "Client error '400 Bad Request'"]

TransportError == [kind |-> "transport_error", msg |-> "All connection attempts failed"]

\* response.raise_for_status() passes
Is2xx(outcome) == outcome.kind \in {"ok", "bad_json"}

\* `except httpx.HTTPError`: HTTPStatusError and TransportError are both
\* subclasses of httpx.HTTPError; json.JSONDecodeError is not.
IsHTTPError(outcome) == outcome.kind \in {"status_error", "transport_error"}

-----------------------------------------------------------------------------
(* What call_tool ends with *)

NoResult == [kind |-> "none", exc |-> "", text |-> <<>>]

\* return [TextContent(type="text", text=...)] with an f-string's pieces
Text(parts) == [kind |-> "text", exc |-> "", text |-> parts]

\* return [TextContent(type="text", text=json.dumps(value, indent=2, ensure_ascii=False))]
JsonText(value) == [kind |-> "text", exc |-> "", text |-> [json |-> value]]

\* an exception leaves call_tool
Raise(exc, parts) == [kind |-> "raise", exc |-> exc, text |-> parts]

\* `not arguments.get(k)` for a str argument, and for a list argument
FalsyStr(args, k) == k \notin DOMAIN args \/ args[k] = ""

FalsyList(args, k) == k \notin DOMAIN args \/ args[k] = <<>>

ToolNames == {"show_all_notion_pages", "notion_update_status", "notion_read_page_content",
              "notion_update_page_content", "notion_add_comment"}

-----------------------------------------------------------------------------
(* The handlers' pure parts *)

\* lines 206-215
QueryBody ==
    [page_size |-> 500,
     sorts |-> <<[property |-> "Created time", timestamp |-> "created_time",
                  direction |-> "descending"]>>]

\* lines 223-232: one formatted page
FormatPage(page) ==
    LET props == Get(page, "properties", EmptyDict)
    IN  [id |-> Get(page, "id", <<>>),
         title |-> extract_text_from_title(Get(props, "Title", EmptyDict)),
         clients |-> extract_multi_select(Get(props, "Clients", EmptyDict)),
         created_time |-> Get(page, "created_time", <<>>),
         last_edited_time |-> Get(page, "last_edited_time", <<>>),
         url |-> <<"h","t","t","p","s",":","/","/","w","w","w",".","n","o","t","i","o","n",".","s","o","/">>
                   \o Replace(Get(page, "id", <<>>), "-", <<>>),
         status |-> extract_select(Get(props, "Status", EmptyDict))]

\* lines 221-232
FormatPages(pages) ==
    LET results == Get(pages, "results", <<>>)
    IN  [k \in 1..Len(results) |-> FormatPage(results[k])]

\* lines 240-247
ShowAllPagesError(outcome) == Text(<<"Error listing pages: ", outcome.msg>>)

\* the check of line 254 as it would be if it looked at page_id only
UpdateStatusMissingPageOnly(args) == FalsyStr(args, "page_id")

\* line 254
UpdateStatusMissing(args) == FalsyStr(args, "page_id") \/ FalsyStr(args, "target_status")

\* lines 267-275
UpdateStatusBody(target_status) ==
    [properties |-> [Status |-> [status |-> [name |-> target_status]]]]

\* lines 279-284
UpdateStatusSuccess(target_status) ==
    Text(<<"Successfully updated page status to '", target_status, "'.">>)

\* the except clause of lines 285-296 as it would be if it raised again
UpdateStatusErrorReraise(outcome) == Raise("HTTPError", <<outcome.msg>>)

\* lines 285-296
UpdateStatusError(outcome) ==
    Text(<<"Error updating status: ", outcome.msg, "\n",
           "Possible issues:\n",
           "1. Invalid page ID\n",
           "2. Invalid status value (must match one of the select options in your database)\n",
           "3. API permission issues (make sure your integration has write access)">>)

\* line 301
ReadPageContentMissing(args) == FalsyStr(args, "page_id")

\* lines 312-319
FormatContent(data) ==
    [title |-> extract_text_from_title(Get(data.properties, "Title", EmptyDict)),
     properties |-> [k \in DOMAIN data.properties |-> format_property_value(data.properties[k])],
     blocks |-> [k \in 1..Len(data.content) |-> format_block(data.content[k])]]

\* lines 327-334
ReadPageContentError(outcome) == Text(<<"Error reading page content: ", outcome.msg>>)

\* line 341
UpdatePageContentMissing(args) == FalsyStr(args, "page_id") \/ FalsyList(args, "content")

\* lines 350-353: block["type"] is read before block["text"], entry by entry;
\* the first key that is absent raises KeyError.
RECURSIVE FirstKeyError(_)
FirstKeyError(content) ==
    IF content = <<>> THEN ""
    ELSE IF "type" \notin DOMAIN Head(content) THEN "type"
    ELSE IF "text" \notin DOMAIN Head(content) THEN "text"
    ELSE FirstKeyError(Tail(content))

CreateBlocks(content) ==
    [k \in 1..Len(content) |-> create_block_content(content[k]["type"], content[k]["text"])]

\* lines 366-371
UpdatePageContentSuccess(bl) ==
    Text(<<"Successfully updated page content with ", ToString(Len(bl)), " blocks.">>)

\* lines 372-379
UpdatePageContentError(outcome) == Text(<<"Error updating page content: ", outcome.msg>>)

\* line 387
AddCommentMissing(args) == FalsyStr(args, "page_id") \/ FalsyStr(args, "comment")

\* lines 396-412
CommentBlock(comment, icon) ==
    [type |-> "callout",
     object |-> "block",
     callout |-> [rich_text |-> <<[type |-> "text", text |-> [content |-> comment]]>>,
                  icon |-> [type |-> "emoji", emoji |-> icon],
                  color |-> "gray_background"]]

\* lines 431-438
AddCommentError(outcome) == Text(<<"Error adding comment: ", outcome.msg>>)

\* the else branch as it would be if it answered with a text
UnknownToolResultText(n) == Text(<<"Unknown tool: ", n>>)

\* lines 440-441
UnknownToolResult(n) == Raise("ValueError", <<"Unknown tool: ", n>>)

-----------------------------------------------------------------------------
(* Steps shared by the handlers *)

\* call_tool ends (returns or raises) before any `async with` is entered
End(i, n, args, bl, res) ==
    /\ pc[i] = "idle"
    /\ pc' = [pc EXCEPT ![i] = IF res.kind = "raise" THEN "raised" ELSE "returned"]
    /\ name' = [name EXCEPT ![i] = n]
    /\ arguments' = [arguments EXCEPT ![i] = args]
    /\ blocks' = [blocks EXCEPT ![i] = bl]
    /\ result' = [result EXCEPT ![i] = res]
    /\ UNCHANGED <<headers, page_data, requests, responses, sessions, opened, codecVars,
                   wireVars>>

\* `async with httpx.AsyncClient() as client:` is entered and the first
\* request is sent with the module's headers; the coroutine is suspended
Open(i, n, args, bl, method, path, body) ==
    /\ pc[i] = "idle"
    /\ pc' = [pc EXCEPT ![i] = "await"]
    /\ name' = [name EXCEPT ![i] = n]
    /\ arguments' = [arguments EXCEPT ![i] = args]
    /\ blocks' = [blocks EXCEPT ![i] = bl]
    /\ sessions' = [sessions EXCEPT ![i] = @ + 1]
    /\ opened' = [opened EXCEPT ![i] = @ + 1]
    /\ requests' = [requests EXCEPT ![i] = Append(@, Request(method, path, headers, body))]
    /\ n = "notion_update_page_content" => appends < MaxRepeat
    /\ appends' = IF n = "notion_update_page_content" THEN appends + 1 ELSE appends
    /\ UNCHANGED <<headers, page_data, responses, result, codecVars, confirmed>>

\* Close as it would be if the client were closed by a call after the
\* response was handled, not by `async with`: an exception skips the call
CloseLeaky(i, outcome, res) ==
    /\ pc[i] = "await"
    /\ pc' = [pc EXCEPT ![i] = IF res.kind = "raise" THEN "raised" ELSE "returned"]
    /\ responses' = [responses EXCEPT ![i] = Append(@, outcome)]
    /\ sessions' = [sessions EXCEPT ![i] = IF res.kind = "raise" THEN @ ELSE @ - 1]
    /\ result' = [result EXCEPT ![i] = res]
    /\ confirmed' = IF name[i] = "notion_update_page_content" /\ res.kind = "text"
                          /\ Is2xx(outcome)
                       THEN confirmed + 1 ELSE confirmed
    /\ UNCHANGED <<headers, name, arguments, blocks, page_data, requests, opened, codecVars,
                   appends>>

\* the awaited request comes back, the `async with` block is left (by return
\* or by an exception: __aexit__ closes the client either way) and call_tool ends
Close(i, outcome, res) ==
    /\ pc[i] = "await"
    /\ pc' = [pc EXCEPT ![i] = IF res.kind = "raise" THEN "raised" ELSE "returned"]
    /\ responses' = [responses EXCEPT ![i] = Append(@, outcome)]
    /\ sessions' = [sessions EXCEPT ![i] = @ - 1]
    /\ result' = [result EXCEPT ![i] = res]
    /\ confirmed' = IF name[i] = "notion_update_page_content" /\ res.kind = "text"
                          /\ Is2xx(outcome)
                       THEN confirmed + 1 ELSE confirmed
    /\ UNCHANGED <<headers, name, arguments, blocks, page_data, requests, opened, codecVars,
                   appends>>

\* response.json() of a 2xx response whose body is not JSON
JSONDecodeError == Raise("JSONDecodeError", <<"Expecting value">>)

-----------------------------------------------------------------------------
(* call_tool, handler by handler.  A coroutine is suspended only where it   *)
(* awaits a request; each action is one run between two suspensions.        *)

\* lines 199-216
ShowAllPages(i, args) ==
    /\ pc[i] = "idle"
    /\ Open(i, "show_all_notion_pages", args, <<>>,
            "POST", <<"databases", DATABASE_ID, "query">>, QueryBody)

\* lines 217-247
ShowAllPagesResume(i, outcome) ==
    /\ name[i] = "show_all_notion_pages"
    /\ Close(i, outcome,
             IF IsHTTPError(outcome) THEN ShowAllPagesError(outcome)
             ELSE IF outcome.kind = "bad_json" THEN JSONDecodeError
             ELSE JsonText(FormatPages(outcome.body)))

\* lines 249-276
UpdateStatus(i, args) ==
    IF UpdateStatusMissing(args)
    THEN End(i, "notion_update_status", args, <<>>,
             Text(<<"Error: Both page_id and target_status are required.">>))
    ELSE Open(i, "notion_update_status", args, <<>>,
              "PATCH", <<"pages", Get(args, "page_id", None)>>,
              UpdateStatusBody(Get(args, "target_status", None)))

\* the status handler as it would be if target_status were kept in a
\* module-level variable, which the latest status update in flight overwrites
UpdateStatusResumeShared(i, outcome) ==
    /\ name[i] = "notion_update_status"
    /\ LET inFlight == {j \in DOMAIN pc : pc[j] = "await" /\ name[j] = "notion_update_status"}
           latest == CHOOSE j \in inFlight : \A k \in inFlight : k <= j
       IN  Close(i, outcome,
                 IF IsHTTPError(outcome) THEN UpdateStatusError(outcome)
                 ELSE UpdateStatusSuccess(Get(arguments[latest], "target_status", None)))

\* lines 277-296
UpdateStatusResume(i, outcome) ==
    /\ name[i] = "notion_update_status"
    /\ Close(i, outcome,
             IF IsHTTPError(outcome) THEN UpdateStatusError(outcome)
             ELSE UpdateStatusSuccess(Get(arguments[i], "target_status", None)))

\* lines 298-309 and 172-179
ReadPageContent(i, args) ==
    IF ReadPageContentMissing(args)
    THEN End(i, "notion_read_page_content", args, <<>>,
             Text(<<"Error: page_id is required.">>))
    ELSE Open(i, "notion_read_page_content", args, <<>>,
              "GET", <<"pages", Get(args, "page_id", None)>>, EmptyDict)

\* lines 180-187 (and 327-334 when the page fetch fails)
ReadPageContentPage(i, outcome) ==
    /\ name[i] = "notion_read_page_content"
    /\ Len(responses[i]) = 0
    /\ IF outcome.kind = "ok"
       THEN /\ pc[i] = "await"
            /\ page_data' = [page_data EXCEPT ![i] = outcome.body]
            /\ responses' = [responses EXCEPT ![i] = Append(@, outcome)]
            /\ requests' = [requests EXCEPT ![i] =
                    Append(@, Request("GET",
                                      <<"blocks", Get(arguments[i], "page_id", None), "children">>,
                                      headers, EmptyDict))]
            /\ UNCHANGED <<headers, pc, name, arguments, blocks, sessions, opened,
                           result, codecVars, wireVars>>
       ELSE Close(i, outcome,
                  IF IsHTTPError(outcome) THEN ReadPageContentError(outcome)
                  ELSE JSONDecodeError)

\* lines 188-194 and 311-334
ReadPageContentChildren(i, outcome) ==
    /\ name[i] = "notion_read_page_content"
    /\ Len(responses[i]) = 1
    /\ Close(i, outcome,
             IF IsHTTPError(outcome) THEN ReadPageContentError(outcome)
             ELSE IF outcome.kind = "bad_json" THEN JSONDecodeError
             ELSE JsonText(FormatContent(
                      [properties |-> Get(page_data[i], "properties", EmptyDict),
                       content |-> Get(outcome.body, "results", <<>>)])))

\* the content-update handler as it would be if it skipped the PATCH once
\* an append had already been sent (a guard against repeating the append)
UpdatePageContentOnce(i, args) ==
    IF UpdatePageContentMissing(args)
    THEN End(i, "notion_update_page_content", args, <<>>,
             Text(<<"Error: Both page_id and content are required.">>))
    ELSE IF FirstKeyError(args["content"]) # ""
    THEN End(i, "notion_update_page_content", args, <<>>,
             Raise("KeyError", <<FirstKeyError(args["content"])>>))
    ELSE IF appends > 0
    THEN End(i, "notion_update_page_content", args, CreateBlocks(args["content"]),
             UpdatePageContentSuccess(CreateBlocks(args["content"])))
    ELSE Open(i, "notion_update_page_content", args, CreateBlocks(args["content"]),
              "PATCH", <<"blocks", Get(args, "page_id", None), "children">>,
              [children |-> CreateBlocks(args["content"])])

\* lines 336-363
UpdatePageContent(i, args) ==
    IF UpdatePageContentMissing(args)
    THEN End(i, "notion_update_page_content", args, <<>>,
             Text(<<"Error: Both page_id and content are required.">>))
    ELSE IF FirstKeyError(args["content"]) # ""
    THEN End(i, "notion_update_page_content", args, <<>>,
             Raise("KeyError", <<FirstKeyError(args["content"])>>))
    ELSE Open(i, "notion_update_page_content", args, CreateBlocks(args["content"]),
              "PATCH", <<"blocks", Get(args, "page_id", None), "children">>,
              [children |-> CreateBlocks(args["content"])])

\* lines 364-379
UpdatePageContentResume(i, outcome) ==
    /\ name[i] = "notion_update_page_content"
    /\ Close(i, outcome,
             IF IsHTTPError(outcome) THEN UpdatePageContentError(outcome)
             ELSE UpdatePageContentSuccess(blocks[i]))

\* lines 381-422
AddComment(i, args) ==
    IF AddCommentMissing(args)
    THEN End(i, "notion_add_comment", args, <<>>,
             Text(<<"Error: Both page_id and comment are required.">>))
    ELSE Open(i, "notion_add_comment", args, <<>>,
              "PATCH", <<"blocks", Get(args, "page_id", None), "children">>,
              [children |-> <<CommentBlock(Get(args, "comment", None),
                                           Get(args, "icon", "speech-balloon"))>>])

\* lines 423-438
AddCommentResume(i, outcome) ==
    /\ name[i] = "notion_add_comment"
    /\ Close(i, outcome,
             IF IsHTTPError(outcome) THEN AddCommentError(outcome)
             ELSE Text(<<"Successfully added comment to the page.">>))

\* lines 440-441
UnknownTool(i, n, args) ==
    /\ n \notin ToolNames
    /\ End(i, n, args, <<>>, UnknownToolResult(n))

\* The framing layer takes what call_tool ended with; the coroutine's frame
\* (its arguments and locals) is gone.
Deliver(i) ==
    /\ pc[i] \in {"returned", "raised"}
    /\ pc' = [pc EXCEPT ![i] = "idle"]
    /\ name' = [name EXCEPT ![i] = ""]
    /\ arguments' = [arguments EXCEPT ![i] = EmptyDict]
    /\ blocks' = [blocks EXCEPT ![i] = <<>>]
    /\ page_data' = [page_data EXCEPT ![i] = EmptyDict]
    /\ requests' = [requests EXCEPT ![i] = <<>>]
    /\ responses' = [responses EXCEPT ![i] = <<>>]
    /\ opened' = [opened EXCEPT ![i] = 0]
    /\ result' = [result EXCEPT ![i] = NoResult]
    /\ UNCHANGED <<headers, sessions, codecVars, wireVars>>

-----------------------------------------------------------------------------
(* The inputs the model draws *)

\* an optional dict entry: absent, or present with a value of S
Opt(S) == {[has |-> FALSE]} \cup {[has |-> TRUE, v |-> x] : x \in S}

\* the dict of the entries that are present
MkDict(opts) == [k \in {x \in DOMAIN opts : opts[x].has} |-> opts[k].v]

SeqsUpTo(S, n) == UNION {[1..m -> S] : m \in 0..n}

Hello == <<"H", "e", "l", "l", "o">>
World == <<"w", "o", "r", "l", "d">>
Space == <<" ">>
Hi == <<"H", "i">>
Acme == <<"A", "c", "m", "e">>
Beta == <<"B", "e", "t", "a">>
Done == <<"D", "o", "n", "e">>

StatusArgs ==
    {MkDict([page_id |-> p, target_status |-> t]) :
        p \in Opt({"", "p1"}), t \in Opt({"", "Done"})}

ReadArgs == {MkDict([page_id |-> p]) : p \in Opt({"", "p1"})}

Entries ==
    {[type |-> "paragraph", text |-> Hi], [type |-> "heading_1", text |-> Hello],
     [text |-> Hi], [type |-> "paragraph"]}

ContentArgs ==
    {MkDict([page_id |-> p, content |-> c]) :
        p \in Opt({"", "p1"}), c \in Opt(SeqsUpTo(Entries, MaxContent))}

CommentArgs ==
    {MkDict([page_id |-> p, comment |-> c, icon |-> e]) :
        p \in Opt({"", "p1"}), c \in Opt({"", "Looks good"}), e \in Opt({"fire"})}

OtherNames == {"notion_delete_page", ""}

Failures == {StatusError, TransportError}

\* pages of a query response
TitleProps == Opt({[type |-> "title",
                    title |-> <<[plain_text |-> Hello], [plain_text |-> World]>>]})

ClientsProps ==
    {[has |-> TRUE, v |-> [type |-> "multi_select", multi_select |-> <<[name |-> Acme]>>]],
     [has |-> TRUE, v |-> [type |-> "multi_select",
                           multi_select |-> <<[name |-> Beta], [name |-> Acme]>>]],
     [has |-> TRUE, v |-> [type |-> "select", select |-> [name |-> Acme]]]}

StatusProps ==
    Opt({[type |-> "select", select |-> [name |-> Done]],
         [type |-> "select", select |-> None],
         [type |-> "status", status |-> [name |-> Done]]})

PageIds == Opt({<<"a", "1", "-", "b", "-", "-", "c">>})

MkPage(d, t, c, st) ==
    MkDict([id |-> d,
            created_time |-> [has |-> TRUE, v |-> <<"2", "0", "2", "4">>],
            properties |-> [has |-> TRUE,
                            v |-> MkDict([Title |-> t, Clients |-> c, Status |-> st])]])

\* the spec's example page (title, Clients ["Acme"], Status "Done") and the
\* pages that differ from it in one place
Pages ==
    LET d0 == [has |-> TRUE, v |-> <<"a", "1", "-", "b", "-", "-", "c">>]
        t0 == [has |-> TRUE,
               v |-> [type |-> "title",
                      title |-> <<[plain_text |-> Hello], [plain_text |-> World]>>]]
        c0 == [has |-> TRUE,
               v |-> [type |-> "multi_select", multi_select |-> <<[name |-> Acme]>>]]
        s0 == [has |-> TRUE, v |-> [type |-> "select", select |-> [name |-> Done]]]
    IN  {MkPage(d, t0, c0, s0) : d \in PageIds}
          \cup {MkPage(d0, t, c0, s0) : t \in TitleProps}
          \cup {MkPage(d0, t0, c, s0) : c \in ClientsProps}
          \cup {MkPage(d0, t0, c0, st) : st \in StatusProps}

QueryOutcomes ==
    {Ok([results |-> ps]) : ps \in SeqsUpTo(Pages, MaxPages)}
      \cup {Ok(EmptyDict), BadJson} \cup Failures

PatchOutcomes == {Ok(EmptyDict), BadJson} \cup Failures

\* properties of a fetched page
PageProps ==
    {EmptyDict,
     [Title |-> [type |-> "title", title |-> <<[plain_text |-> Hello]>>],
      Status |-> [type |-> "select", select |-> None],
      Due |-> [type |-> "date", date |-> [start |-> <<"2", "0", "2", "4">>]],
      Done |-> [type |-> "checkbox", checkbox |-> TRUE]],
     [Title |-> [type |-> "title", title |-> <<>>],
      Clients |-> [type |-> "multi_select", multi_select |-> <<[name |-> Acme]>>],
      Notes |-> [type |-> "rich_text",
                 rich_text |-> <<[plain_text |-> Hello], [plain_text |-> World]>>]]}

PageOutcomes ==
    {Ok([properties |-> ps]) : ps \in PageProps} \cup {Ok(EmptyDict), BadJson} \cup Failures

\* a block as the API returns it: the runs sit under the key named by the type
ExternalBlock(type, runs) ==
    [k \in {"type", type} |-> IF k = type THEN [rich_text |-> runs] ELSE type]

ChildBlocks ==
    {ExternalBlock("paragraph", <<[plain_text |-> Hello], [plain_text |-> World]>>),
     ExternalBlock("bulleted_list_item", <<[plain_text |-> Hi]>>),
     [type |-> "divider", divider |-> EmptyDict],
     [object |-> "block"]}

ChildrenOutcomes ==
    {Ok([results |-> bs]) : bs \in SeqsUpTo(ChildBlocks, 2)}
      \cup {Ok(EmptyDict), BadJson} \cup Failures

\* everything a sequential run draws from
Rich ==
    [show |-> {EmptyDict}, status |-> StatusArgs, read |-> ReadArgs,
     content |-> ContentArgs, comment |-> CommentArgs,
     other |-> OtherNames, otherArgs |-> {EmptyDict, [page_id |-> "p1"]},
     query |-> QueryOutcomes, patch |-> PatchOutcomes,
     page |-> PageOutcomes, children |-> ChildrenOutcomes]

\* what concurrent runs draw from: each handler with arguments that pass
\* and arguments that do not, each request with a success and a failure
Small ==
    [show |-> {EmptyDict},
     status |-> {[page_id |-> "p1", target_status |-> "Done"],
                 [page_id |-> "p2", target_status |-> "To Do"],
                 [target_status |-> "Done"]},
     read |-> {[page_id |-> "p1"], [page_id |-> "p2"]},
     content |-> {[page_id |-> "p1", content |-> <<[type |-> "paragraph", text |-> Hi]>>],
                  [page_id |-> "p2",
                   content |-> <<[type |-> "heading_1", text |-> Hello],
                                 [type |-> "paragraph", text |-> Hi]>>],
                  [page_id |-> "p1", content |-> <<[text |-> Hi]>>]},
     comment |-> {[page_id |-> "p1", comment |-> "Looks good"],
                  [page_id |-> "p2", comment |-> "Looks good", icon |-> "fire"],
                  [comment |-> "Looks good"]},
     other |-> {"notion_delete_page"}, otherArgs |-> {EmptyDict},
     query |-> {Ok([results |-> <<>>]), BadJson, StatusError},
     patch |-> {Ok(EmptyDict), TransportError},
     page |-> {Ok([properties |-> EmptyDict]), StatusError},
     children |-> {Ok([results |-> <<[object |-> "block"]>>]), TransportError}]

-----------------------------------------------------------------------------
(* Specifications *)

Idle(n) ==
    /\ headers = Headers0
    /\ pc = [i \in 1..n |-> "idle"]
    /\ name = [i \in 1..n |-> ""]
    /\ arguments = [i \in 1..n |-> EmptyDict]
    /\ blocks = [i \in 1..n |-> <<>>]
    /\ page_data = [i \in 1..n |-> EmptyDict]
    /\ requests = [i \in 1..n |-> <<>>]
    /\ responses = [i \in 1..n |-> <<>>]
    /\ sessions = [i \in 1..n |-> 0]
    /\ opened = [i \in 1..n |-> 0]
    /\ result = [i \in 1..n |-> NoResult]
    /\ appends = 0
    /\ confirmed = 0

CodecOff ==
    /\ cin = EmptyDict
    /\ cout = None
    /\ cpc = "off"

Step(i, In) ==
    \/ \E args \in In.show : ShowAllPages(i, args)
    \/ \E outcome \in In.query : ShowAllPagesResume(i, outcome)
    \/ \E args \in In.status : UpdateStatus(i, args)
    \/ \E outcome \in In.patch : UpdateStatusResume(i, outcome)
    \/ \E args \in In.read : ReadPageContent(i, args)
    \/ \E outcome \in In.page : ReadPageContentPage(i, outcome)
    \/ \E outcome \in In.children : ReadPageContentChildren(i, outcome)
    \/ \E args \in In.content : UpdatePageContent(i, args)
    \/ \E outcome \in In.patch : UpdatePageContentResume(i, outcome)
    \/ \E args \in In.comment : AddComment(i, args)
    \/ \E outcome \in In.patch : AddCommentResume(i, outcome)
    \/ \E n \in In.other, args \in In.otherArgs : UnknownTool(i, n, args)
    \/ Deliver(i)

\* one invocation at a time, over the rich inputs
Init == Idle(1) /\ CodecOff

Next == \E i \in 1..1 : Step(i, Rich)

Spec == Init /\ [][Next]_vars

\* NumInv invocations interleaved at their awaits
InitConc == Idle(NumInv) /\ CodecOff

NextConc == \E i \in 1..NumInv : Step(i, Small)

SpecConc == InitConc /\ [][NextConc]_vars

-----------------------------------------------------------------------------
(* The block codec on its own *)

BlockTypes == TextLike \cup {"callout", ""}

Runs == {[plain_text |-> Hello], [plain_text |-> Space], [plain_text |-> World],
         [type |-> "text"]}

CodecInputs ==
    [type : BlockTypes, text : {<<>>, Hi, Hello \o Space \o World},
     runs : SeqsUpTo(Runs, MaxRuns)]

InitCodec ==
    /\ Idle(1)
    /\ cin \in CodecInputs
    /\ cout = None
    /\ cpc = "input"

CreateBlock ==
    /\ cpc = "input"
    /\ cout' = create_block_content(cin.type, cin.text)
    /\ cpc' = "created"
    /\ UNCHANGED <<cin, serverVars>>

FormatCreated ==
    /\ cpc = "created"
    /\ cout' = format_block(cout)
    /\ cpc' = "roundtrip"
    /\ UNCHANGED <<cin, serverVars>>

FormatBlock ==
    /\ cpc = "input"
    /\ cout' = format_block(ExternalBlock(cin.type, cin.runs))
    /\ cpc' = "formatted"
    /\ UNCHANGED <<cin, serverVars>>

NextCodec == CreateBlock \/ FormatCreated \/ FormatBlock

SpecCodec == InitCodec /\ [][NextCodec]_vars

-----------------------------------------------------------------------------
(* Claims about the dispatcher, checked under Spec *)

Ended(i) == pc[i] \in {"returned", "raised"}

\* C1 (as claimed): for each of the five recognized tool names, whatever the
\* arguments and whatever the external calls come back with, call_tool ends
\* by returning a textual result and never by raising.
C1_NeverRaises ==
    \A i \in DOMAIN pc : name[i] \in ToolNames => pc[i] # "raised"

\* the arguments a tool requires
Required(n) ==
    CASE n = "notion_update_status" -> {"page_id", "target_status"}
      [] n = "notion_read_page_content" -> {"page_id"}
      [] n = "notion_update_page_content" -> {"page_id", "content"}
      [] n = "notion_add_comment" -> {"page_id", "comment"}
      [] OTHER -> {}

MissingRequired(i) == \E k \in Required(name[i]) : k \notin DOMAIN arguments[i]

RequiredErrors ==
    {"Error: Both page_id and target_status are required.",
     "Error: page_id is required.",
     "Error: Both page_id and content are required.",
     "Error: Both page_id and comment are required."}

\* C2: when a required argument of notion_update_status,
\* notion_read_page_content, notion_update_page_content or notion_add_comment
\* is missing, the invocation returns a textual error, has issued no external
\* request and has opened no transport session.
C2_MissingArgumentNoCall ==
    \A i \in DOMAIN pc :
        (pc[i] # "idle" /\ MissingRequired(i)) =>
            /\ requests[i] = <<>>
            /\ opened[i] = 0
            /\ pc[i] = "returned"
            /\ result[i].kind = "text"
            /\ Len(result[i].text) = 1
            /\ result[i].text[1] \in RequiredErrors

C2_Witness ==
    \E i \in DOMAIN pc :
        /\ pc[i] = "returned"
        /\ name[i] = "notion_add_comment"
        /\ DOMAIN arguments[i] = {"page_id", "icon"}
        /\ result[i] = Text(<<"Error: Both page_id and comment are required.">>)

\* C3: dispatching a name outside the five catalogued ones raises, returns
\* no textual result and issues no external request, whatever the arguments.
C3_UnknownToolRaises ==
    \A i \in DOMAIN pc :
        (pc[i] # "idle" /\ name[i] \notin ToolNames) =>
            /\ pc[i] = "raised"
            /\ result[i].kind = "raise"
            /\ result[i].exc = "ValueError"
            /\ requests[i] = <<>>
            /\ opened[i] = 0

C3_Witness ==
    \E i \in DOMAIN pc :
        /\ pc[i] = "raised"
        /\ name[i] = "notion_delete_page"
        /\ arguments[i] = [page_id |-> "p1"]
        /\ requests[i] = <<>>

\* a non-2xx response or a transport failure
Failed(outcome) == outcome.kind \in {"status_error", "transport_error"}

\* the text is made of string pieces and msg is one of them
Embeds(text, msg) ==
    /\ DOMAIN text = 1..Len(text)
    /\ \E j \in 1..Len(text) : text[j] = msg

\* C4: when an external request fails, the invocation returns a textual error
\* embedding the failure's message; nothing is raised, the request is not
\* retried and no further request is issued (a failed page fetch is not
\* followed by the children fetch).
C4_FailureIsTextNoRetry ==
    \A i \in DOMAIN pc :
        \A k \in 1..Len(responses[i]) :
            Failed(responses[i][k]) =>
                /\ pc[i] = "returned"
                /\ result[i].kind = "text"
                /\ Embeds(result[i].text, responses[i][k].msg)
                /\ Len(responses[i]) = k
                /\ Len(requests[i]) = k

C4_Witness ==
    \E i \in DOMAIN pc :
        /\ pc[i] = "returned"
        /\ name[i] = "notion_read_page_content"
        /\ responses[i] = <<TransportError>>
        /\ Len(requests[i]) = 1
        /\ result[i] = Text(<<"Error reading page content: ", TransportError.msg>>)

\* C5: every transport session an invocation opens is closed before the
\* invocation ends, on every exit path; whenever no invocation is in
\* progress, no session is open.
C5_SessionsClosed ==
    \A i \in DOMAIN pc :
        /\ sessions[i] \in {0, 1}
        /\ pc[i] # "await" => sessions[i] = 0

C5_Witness ==
    \E i \in DOMAIN pc :
        /\ pc[i] = "raised"
        /\ opened[i] = 1
        /\ sessions[i] = 0
        /\ result[i].exc = "JSONDecodeError"

\* C8 (as claimed): a notion_update_status invocation with page_id and
\* target_status issues exactly one request, a PATCH of pages/{page_id} whose
\* body sets "Status" as a select-typed value (payload under the key
\* "select") named target_status; on success the confirmation names
\* target_status.
C8_StatusSetAsSelect ==
    \A i \in DOMAIN pc :
        (Ended(i) /\ name[i] = "notion_update_status" /\ ~MissingRequired(i)
           /\ arguments[i]["page_id"] # "" /\ arguments[i]["target_status"] # "") =>
            /\ Len(requests[i]) = 1
            /\ requests[i][1].method = "PATCH"
            /\ requests[i][1].url = <<NOTION_BASE_URL, "pages", arguments[i]["page_id"]>>
            /\ DOMAIN requests[i][1].json = {"properties"}
            /\ DOMAIN requests[i][1].json.properties = {"Status"}
            /\ DOMAIN requests[i][1].json.properties.Status = {"select"}
            /\ requests[i][1].json.properties.Status["select"]
                   = [name |-> arguments[i]["target_status"]]
            /\ Is2xx(responses[i][1]) =>
                   /\ result[i].kind = "text"
                   /\ Embeds(result[i].text, arguments[i]["target_status"])

\* the Clients names, as the claim reads them off a page
ClaimClients(page) ==
    LET props == page["properties"]
    IN  IF "Clients" \in DOMAIN props /\ props["Clients"]["type"] = "multi_select"
        THEN [k \in 1..Len(props["Clients"]["multi_select"]) |->
                 props["Clients"]["multi_select"][k]["name"]]
        ELSE <<>>

\* the Status name, "" when there is no selection or the tag is not select
ClaimStatus(page) ==
    LET props == page["properties"]
    IN  IF /\ "Status" \in DOMAIN props
           /\ props["Status"]["type"] = "select"
           /\ props["Status"]["select"] # None
        THEN props["Status"]["select"]["name"]
        ELSE <<>>

\* the title fragments with one space between neighbours, built from the right
RECURSIVE ClaimSpaced(_)
ClaimSpaced(frags) ==
    IF Len(frags) = 0 THEN <<>>
    ELSE IF Len(frags) = 1 THEN frags[1]
    ELSE ClaimSpaced(SubSeq(frags, 1, Len(frags) - 1)) \o <<" ">> \o frags[Len(frags)]

ClaimTitle(page) ==
    LET props == page["properties"]
    IN  IF "Title" \in DOMAIN props
        THEN ClaimSpaced([k \in 1..Len(props["Title"]["title"]) |->
                             props["Title"]["title"][k]["plain_text"]])
        ELSE <<>>

NotHyphen(c) == c # "-"

ClaimUrl(page) ==
    <<"h","t","t","p","s",":","/","/","w","w","w",".","n","o","t","i","o","n",".","s","o","/">>
      \o (IF "id" \in DOMAIN page THEN SelectSeq(page["id"], NotHyphen) ELSE <<>>)

\* C10: given a successful query response, show_all_notion_pages returns a
\* JSON array with one object per returned page, in order, with title the
\* space-joined title text, clients the Clients multi_select names in order,
\* status the selected Status name ("" when nothing is selected or the tag is
\* not select) and url "https://www.notion.so/" followed by the id without
\* its hyphens.
C10_ListingShape ==
    \A i \in DOMAIN pc :
        (pc[i] = "returned" /\ name[i] = "show_all_notion_pages"
           /\ responses[i][1].kind = "ok" /\ "results" \in DOMAIN responses[i][1].body) =>
            LET pages == responses[i][1].body["results"]
            IN  /\ DOMAIN result[i].text = {"json"}
                /\ LET out == result[i].text["json"]
                   IN  /\ Len(out) = Len(pages)
                       /\ \A k \in 1..Len(pages) :
                            /\ out[k].title = ClaimTitle(pages[k])
                            /\ out[k].clients = ClaimClients(pages[k])
                            /\ out[k].status = ClaimStatus(pages[k])
                            /\ out[k].url = ClaimUrl(pages[k])

\* the spec's example: two pages, Clients ["Acme"], Status "Done" (the second
\* one here with no selection), hyphens stripped from the id
C10_Witness ==
    \E i \in DOMAIN pc :
        /\ pc[i] = "returned"
        /\ name[i] = "show_all_notion_pages"
        /\ responses[i][1].kind = "ok"
        /\ DOMAIN result[i].text = {"json"}
        /\ Len(result[i].text["json"]) = 2
        /\ result[i].text["json"][1].title = Hello \o <<" ">> \o World
        /\ result[i].text["json"][1].clients = <<Acme>>
        /\ result[i].text["json"][1].status = Done
        /\ result[i].text["json"][1].url =
             <<"h","t","t","p","s",":","/","/","w","w","w",".","n","o","t","i","o","n",".","s","o","/",
               "a","1","b","c">>
        /\ "Status" \in DOMAIN responses[i][1].body["results"][2]["properties"]
        /\ responses[i][1].body["results"][2]["properties"]["Status"]
             = [type |-> "select", select |-> None]
        /\ result[i].text["json"][2].status = <<>>

-----------------------------------------------------------------------------
(* Claims about the block codec, checked under SpecCodec *)

\* C6 (as claimed): create_block_content(type, text) followed by format_block
\* yields {type, text} with the same type and the same text, for every
\* text-like type and every text.
C6_RoundTrip ==
    (cpc = "roundtrip" /\ cin.type \in TextLike) =>
        cout = [type |-> cin.type, text |-> cin.text]

\* C6 (amended): create_block_content(type, text) followed by format_block
\* yields {type, text: ""} for every text-like type and every text: the type
\* is kept, the text is not, since the constructed run carries its text under
\* text.content and has no plain_text for format_block to read.
C6_RoundTripLosesText ==
    (cpc = "roundtrip" /\ cin.type \in TextLike) =>
        cout = [type |-> cin.type, text |-> <<>>]

C6_Witness ==
    /\ cpc = "roundtrip"
    /\ cin.type = "paragraph"
    /\ cin.text = Hi
    /\ cout = [type |-> "paragraph", text |-> <<>>]

\* C7 (as claimed): format_block on a paragraph whose runs have plain-text
\* fragments "Hello", " ", "world" returns {type: "paragraph", text: "Hello
\* world"}, with exactly one space between the two words.
C7_HelloWorldOneSpace ==
    (cpc = "formatted" /\ cin.type = "paragraph"
       /\ cin.runs = <<[plain_text |-> Hello], [plain_text |-> Space], [plain_text |-> World]>>) =>
        cout = [type |-> "paragraph", text |-> Hello \o <<" ">> \o World]

\* C7 (amended): on those three fragments format_block returns {type:
\* "paragraph", text: "Hello   world"}: one separator space is put between
\* each two neighbouring fragments, so the fragment " " ends up with a space
\* on either side and three spaces stand between the two words.
C7_HelloWorldThreeSpaces ==
    (cpc = "formatted" /\ cin.type = "paragraph"
       /\ cin.runs = <<[plain_text |-> Hello], [plain_text |-> Space], [plain_text |-> World]>>) =>
        cout = [type |-> "paragraph", text |-> Hello \o <<" ", " ", " ">> \o World]

C7_Witness ==
    /\ cpc = "formatted"
    /\ cin.type = "paragraph"
    /\ cin.runs = <<[plain_text |-> Hello], [plain_text |-> Space], [plain_text |-> World]>>
    /\ Len(cout.text) = 13

-----------------------------------------------------------------------------
(* Claims about interleaved invocations, checked under SpecConc *)

\* A run of one invocation on its own, as a function of its name, its
\* arguments and the outcomes its requests meet, with the headers as they
\* are after startup.

\* the invocation gets as far as its first request
SoloStarts(n, args) ==
    CASE n = "show_all_notion_pages" -> TRUE
      [] n = "notion_update_status" -> ~UpdateStatusMissing(args)
      [] n = "notion_read_page_content" -> ~ReadPageContentMissing(args)
      [] n = "notion_update_page_content" ->
            ~UpdatePageContentMissing(args) /\ FirstKeyError(args["content"]) = ""
      [] n = "notion_add_comment" -> ~AddCommentMissing(args)
      [] OTHER -> FALSE

SoloFirstRequest(n, args) ==
    CASE n = "show_all_notion_pages" ->
            Request("POST", <<"databases", DATABASE_ID, "query">>, Headers0, QueryBody)
      [] n = "notion_update_status" ->
            Request("PATCH", <<"pages", args["page_id"]>>, Headers0,
                    UpdateStatusBody(args["target_status"]))
      [] n = "notion_read_page_content" ->
            Request("GET", <<"pages", args["page_id"]>>, Headers0, EmptyDict)
      [] n = "notion_update_page_content" ->
            Request("PATCH", <<"blocks", args["page_id"], "children">>, Headers0,
                    [children |-> CreateBlocks(args["content"])])
      [] n = "notion_add_comment" ->
            Request("PATCH", <<"blocks", args["page_id"], "children">>, Headers0,
                    [children |-> <<CommentBlock(args["comment"],
                                                 Get(args, "icon", "speech-balloon"))>>])

SoloRequests(n, args, resps) ==
    IF ~SoloStarts(n, args) THEN <<>>
    ELSE IF n = "notion_read_page_content" /\ Len(resps) >= 1 /\ resps[1].kind = "ok"
    THEN <<SoloFirstRequest(n, args),
           Request("GET", <<"blocks", args["page_id"], "children">>, Headers0, EmptyDict)>>
    ELSE <<SoloFirstRequest(n, args)>>

SoloEnded(n, args, resps) ==
    \/ ~SoloStarts(n, args)
    \/ Len(resps) = 2
    \/ Len(resps) = 1 /\ (n # "notion_read_page_content" \/ resps[1].kind # "ok")

SoloNoCall(n, args) ==
    CASE n = "notion_update_status" ->
            Text(<<"Error: Both page_id and target_status are required.">>)
      [] n = "notion_read_page_content" -> Text(<<"Error: page_id is required.">>)
      [] n = "notion_update_page_content" ->
            IF UpdatePageContentMissing(args)
            THEN Text(<<"Error: Both page_id and content are required.">>)
            ELSE Raise("KeyError", <<FirstKeyError(args["content"])>>)
      [] n = "notion_add_comment" ->
            Text(<<"Error: Both page_id and comment are required.">>)
      [] OTHER -> Raise("ValueError", <<"Unknown tool: ", n>>)

SoloResult(n, args, resps) ==
    LET last == resps[Len(resps)]
    IN  IF ~SoloStarts(n, args) THEN SoloNoCall(n, args)
        ELSE CASE n = "show_all_notion_pages" ->
                    IF Failed(last) THEN ShowAllPagesError(last)
                    ELSE IF last.kind = "bad_json" THEN JSONDecodeError
                    ELSE JsonText(FormatPages(last.body))
               [] n = "notion_update_status" ->
                    IF Failed(last) THEN UpdateStatusError(last)
                    ELSE UpdateStatusSuccess(args["target_status"])
               [] n = "notion_read_page_content" ->
                    IF Failed(last) THEN ReadPageContentError(last)
                    ELSE IF last.kind = "bad_json" THEN JSONDecodeError
                    ELSE JsonText(FormatContent(
                             [properties |-> Get(resps[1].body, "properties", EmptyDict),
                              content |-> Get(resps[2].body, "results", <<>>)]))
               [] n = "notion_update_page_content" ->
                    IF Failed(last) THEN UpdatePageContentError(last)
                    ELSE UpdatePageContentSuccess(CreateBlocks(args["content"]))
               [] n = "notion_add_comment" ->
                    IF Failed(last) THEN AddCommentError(last)
                    ELSE Text(<<"Successfully added comment to the page.">>)

\* C9: with invocations interleaved at their awaits, each invocation issues
\* the requests and ends with the result it would alone, given the same
\* arguments and the same outcomes, and the process-wide headers stay as
\* they were set at startup.
C9_AsIfAlone ==
    /\ headers = Headers0
    /\ \A i \in DOMAIN pc :
         pc[i] # "idle" =>
            /\ requests[i] = SoloRequests(name[i], arguments[i], responses[i])
            /\ Ended(i) <=> SoloEnded(name[i], arguments[i], responses[i])
            /\ Ended(i) => result[i] = SoloResult(name[i], arguments[i], responses[i])

\* two status updates in flight together, the first one answered while the
\* second still waits
C9_Witness ==
    \E i, j \in DOMAIN pc :
        /\ i # j
        /\ name[i] = "notion_update_status" /\ name[j] = "notion_update_status"
        /\ arguments[i] # arguments[j]
        /\ pc[i] = "returned" /\ Len(responses[i]) = 1
        /\ pc[j] = "await"
        /\ result[i] = UpdateStatusSuccess(arguments[i]["target_status"])

-----------------------------------------------------------------------------
(* Claims about the content update, checked under Spec *)

\* a content-update invocation whose page_id and content pass the handler's
\* check and whose content entries are {type, text}
ContentUpdate(i) ==
    /\ pc[i] # "idle"
    /\ name[i] = "notion_update_page_content"
    /\ "page_id" \in DOMAIN arguments[i] /\ arguments[i]["page_id"] # ""
    /\ "content" \in DOMAIN arguments[i] /\ arguments[i]["content"] # <<>>
    /\ \A k \in 1..Len(arguments[i]["content"]) :
          DOMAIN arguments[i]["content"][k] = {"type", "text"}

\* the block the claim expects for one entry
ClaimBlock(entry) ==
    [k \in {"type", "object", entry["type"]} |->
        IF k = "type" THEN entry["type"]
        ELSE IF k = "object" THEN "block"
        ELSE [rich_text |-> <<[type |-> "text", text |-> [content |-> entry["text"]]]>>]]

ContentUpdatesInFlight ==
    {i \in DOMAIN pc : pc[i] = "await" /\ name[i] = "notion_update_page_content"}

\* C11: a notion_update_page_content invocation with page_id and content
\* builds one block per content entry, in the entries' order, and issues
\* exactly one request, a PATCH of blocks/{page_id}/children carrying all of
\* them; on success the confirmation states as many blocks as there are
\* entries.  Every invocation sends its own PATCH: the confirmed invocations
\* and those in flight never outnumber the PATCHes sent.
C11_OnePatchPerInvocation ==
    /\ confirmed + Cardinality(ContentUpdatesInFlight) <= appends
    /\ \A i \in DOMAIN pc :
         ContentUpdate(i) =>
            LET content == arguments[i]["content"]
            IN  /\ Len(blocks[i]) = Len(content)
                /\ \A k \in 1..Len(content) : blocks[i][k] = ClaimBlock(content[k])
                /\ Len(requests[i]) = 1
                /\ requests[i][1].method = "PATCH"
                /\ requests[i][1].url =
                       <<NOTION_BASE_URL, "blocks", arguments[i]["page_id"], "children">>
                /\ requests[i][1].json = [children |-> blocks[i]]
                /\ (Ended(i) /\ Is2xx(responses[i][1])) =>
                       result[i] = Text(<<"Successfully updated page content with ",
                                          ToString(Len(content)), " blocks.">>)

\* the second confirmed update, of two entries of different types, with the
\* second PATCH sent
C11_Witness ==
    \E i \in DOMAIN pc :
        /\ ContentUpdate(i)
        /\ pc[i] = "returned"
        /\ Len(arguments[i]["content"]) = 2
        /\ arguments[i]["content"][1]["type"] = "heading_1"
        /\ arguments[i]["content"][2]["type"] = "paragraph"
        /\ Is2xx(responses[i][1])
        /\ result[i].text[2] = "2"
        /\ confirmed = 2
        /\ appends = 2

====
